---- MODULE Spec2Model ----
(***************************************************************************)
(* Privacy Services Manager: the relational (TCC database) editor TCCEdit, *)
(* the Location Services editor LSEdit and the command-line driver main.   *)
(***************************************************************************)
EXTENDS Integers, Sequences, FiniteSets, TLC

(***************************************************************************)
(* Values                                                                  *)
(***************************************************************************)

\* Python's None (an argument that was not given).
None == "<None>"

\* The NULL the six-column dialect supplies for the csreq blob.
NULL == "NULL"

\* tcc_services.py:14-20  short key -> (service name, TCC database, Darwin
\* version introduced)
available_services ==
    [accessibility |-> <<"kTCCServiceAccessibility", "root", 13>>,
     contacts      |-> <<"kTCCServiceAddressBook", "local", 12>>,
     icloud        |-> <<"kTCCServiceUbiquity", "local", 13>>,
     calendar      |-> <<"kTCCServiceCalendar", "local", 13>>,
     reminders     |-> <<"kTCCServiceReminders", "local", 13>>]

\* str.lower() on the service keys the model passes around.
lower(s) ==
    CASE s = "Contacts" -> "contacts"
      [] s = "ICLOUD" -> "icloud"
      [] OTHER -> s

\* Darwin major versions (int(os.uname()[2].split('.')[0])).
Versions == {11, 12, 13, 14}

\* Effective user ids: root and an ordinary account.
Euids == {0, 501}

\* getpass.getuser() for an effective user id.
getuser(euid) == IF euid = 0 THEN "root" ELSE "alice"

\* The service a session is constructed with ('' is "no default service").
SessionServices ==
    {"contacts", "icloud", "accessibility", "Contacts", "bogus", ""}

\* The user argument of the constructor ('' is "the current user").
UserArgs == {"", "alice", "ghost"}

\* Targets handed to insert/remove/disable.
Targets == {None, "Safari.app", "/Applications/Safari.app", "nosuchapp"}

\* Explicit service arguments of insert/remove/disable (None: not given).
ServiceArgs == {None, "contacts", "bogus"}

(***************************************************************************)
(* External collaborators                                                  *)
(***************************************************************************)

NotFound == "<AppNotFound>"

\* AppInfo(target).bid: the bundle identifier of what the target names.
AppInfoBid(target) ==
    CASE target = "Safari.app" -> "com.apple.Safari"
      [] target = "/Applications/Safari.app" -> "com.apple.Safari"
      [] target = "com.apple.Safari" -> "com.apple.Safari"
      [] target = "Maps.app" -> "com.apple.Maps"
      [] target = "com.apple.Maps" -> "com.apple.Maps"
      [] OTHER -> NotFound

Cwd == "/Applications"

AbsoluteTargets == {"/Applications/Safari.app"}

\* os.path.abspath(target)
abspath(target) ==
    IF target \in AbsoluteTargets THEN target ELSE Cwd \o "/" \o target

(***************************************************************************)
(* Files and databases                                                     *)
(***************************************************************************)

root_path == "/Library/Application Support/com.apple.TCC/TCC.db"

TemplatePath(lang) ==
    "/System/Library/User Template/" \o lang
        \o ".lproj/Library/Application Support/com.apple.TCC/TCC.db"

\* Users the system's user database knows, with their home directories.
KnownHome(user) ==
    CASE user = "root" -> "/var/root"
      [] user = "alice" -> "/Users/alice"
      [] OTHER -> None

\* os.path.expanduser('~user/...'): left as it is for an unknown user.
expanduser(user) ==
    IF KnownHome(user) = None
    THEN "~" \o user \o "/Library/Application Support/com.apple.TCC/TCC.db"
    ELSE KnownHome(user)
             \o "/Library/Application Support/com.apple.TCC/TCC.db"

\* Whether a path starts with '/'.
IsAbsolute(path) ==
    path \in {root_path, TemplatePath("English"),
              expanduser("root"), expanduser("alice")}

\* os.path.isdir('/Users/<user>') on the modelled machine.
UsersDirExists(user) == user = "alice"

Paths ==
    {root_path, TemplatePath("English"), expanduser("root"),
     expanduser("alice")}

Col(n, t, nn) == [name |-> n, type |-> t, notnull |-> nn]

PrimaryKey == <<"service", "client", "client_type">>

NoTables == [t \in {} |-> <<>>]

\* A path with no file (and, with nodir, no directory to hold one).
NoDir == [kind |-> "nodir", tables |-> NoTables, admin |-> {}, access |-> {},
          origin |-> "none"]

NoFile == [kind |-> "nofile", tables |-> NoTables, admin |-> {},
           access |-> {}, origin |-> "none"]

Exists(f) == f.kind = "db"

\* sqlite3.connect(path) on a path with no file: an empty database.
EmptyDB == [kind |-> "db", tables |-> NoTables, admin |-> {}, access |-> {},
            origin |-> "connect"]

(***************************************************************************)
(* Schema Builder: TCCEdit.__create                                        *)
(***************************************************************************)

\* CREATE TABLE admin (key TEXT PRIMARY KEY NOT NULL, value INTEGER NOT NULL)
AdminTable ==
    [cols |-> <<Col("key", "TEXT", TRUE), Col("value", "INTEGER", TRUE)>>,
     pk |-> <<"key">>]

\* INSERT INTO admin VALUES ('version', 7)
AdminRows == {<<"version", 7>>}

AccessColumns5 ==
    <<Col("service", "TEXT", TRUE), Col("client", "TEXT", TRUE),
      Col("client_type", "INTEGER", TRUE), Col("allowed", "INTEGER", TRUE),
      Col("prompt_count", "INTEGER", TRUE)>>

\* The access table with the csreq column in every version.
AccessTableSixAlways(version) ==
    [cols |-> AccessColumns5 \o <<Col("csreq", "BLOB", FALSE)>>,
     pk |-> PrimaryKey]

\* The access table: "In OS X 10.9, Apple changed the formatting for this
\* table a bit": Darwin 12 has five columns, every other version six.
AccessTable(version) ==
    [cols |-> IF version = 12
              THEN AccessColumns5
              ELSE AccessColumns5 \o <<Col("csreq", "BLOB", FALSE)>>,
     pk |-> PrimaryKey]

AccessTimesTable ==
    [cols |-> <<Col("service", "TEXT", TRUE), Col("client", "TEXT", TRUE),
                Col("client_type", "INTEGER", TRUE),
                Col("last_used_time", "INTEGER", TRUE)>>,
     pk |-> PrimaryKey]

AccessOverridesTable ==
    [cols |-> <<Col("service", "TEXT", TRUE)>>, pk |-> <<"service">>]

\* The tables __create makes, in a session of the given version.
CreatedTables(version) ==
    [admin |-> AdminTable,
     access |-> AccessTable(version),
     access_times |-> AccessTimesTable,
     access_overrides |-> AccessOverridesTable]

\* The fresh TCC.db that __create leaves at a path.
__create(version) ==
    [kind |-> "db", tables |-> CreatedTables(version), admin |-> AdminRows,
     access |-> {}, origin |-> "create"]

(***************************************************************************)
(* SQL statements on one database                                          *)
(***************************************************************************)

HasAccess(db) == "access" \in DOMAIN db.tables

ColumnCount(db) == Len(db.tables["access"].cols)

\* Two rows of access with the same primary key (service, client, client_type).
SameKey(r, v) == r[1] = v[1] /\ r[2] = v[2] /\ r[3] = v[3]

\* INSERT or REPLACE into access values(...): "ok" and the new rows, or the
\* sqlite3.OperationalError the statement raises.
Upsert(db, values) ==
    IF ~HasAccess(db)
    THEN [error |-> "NoSuchTable", db |-> db]
    ELSE IF Len(values) # ColumnCount(db)
    THEN [error |-> "ColumnCount", db |-> db]
    ELSE [error |-> "ok",
          db |-> [db EXCEPT !.access =
                      {r \in db.access : ~SameKey(r, values)} \cup {values}]]

\* SELECT count(*) FROM access WHERE service IS ? and client IS ?
SelectCount(db, values) ==
    Cardinality({r \in db.access : r[1] = values[1] /\ r[2] = values[2]})

\* The DELETE with the client left out of its WHERE clause.
DeleteWholeService(db, values) ==
    IF ~HasAccess(db)
    THEN [error |-> "NoSuchTable", db |-> db]
    ELSE [error |-> "ok",
          db |-> [db EXCEPT !.access =
                      {r \in db.access : r[1] # values[1]}]]

\* The DELETE narrowed to the rows with client_type 0.
DeleteClientTypeZero(db, values) ==
    IF ~HasAccess(db)
    THEN [error |-> "NoSuchTable", db |-> db]
    ELSE [error |-> "ok",
          db |-> [db EXCEPT !.access =
                      {r \in db.access :
                          ~(r[1] = values[1] /\ r[2] = values[2]
                              /\ r[3] = 0)}]]

\* DELETE FROM access WHERE service IS ? AND client IS ?
Delete(db, values) ==
    IF ~HasAccess(db)
    THEN [error |-> "NoSuchTable", db |-> db]
    ELSE [error |-> "ok",
          db |-> [db EXCEPT !.access =
                      {r \in db.access :
                          ~(r[1] = values[1] /\ r[2] = values[2])}]]

(***************************************************************************)
(* Relational Store Connector: TCCEdit.__init__ and __exit__               *)
(***************************************************************************)

\* Whether the caller may create or write a file at the path: root may
\* everywhere, an ordinary user only below their own home directory.
CanWrite(euid, path) == euid = 0 \/ path = expanduser(getuser(euid))

\* os.access(path, os.W_OK)
access_W_OK(fs, euid, path) == Exists(fs[path]) /\ CanWrite(euid, path)

NoSession ==
    [service |-> "", admin |-> FALSE, version |-> 0, root |-> FALSE,
     local |-> FALSE, local_path |-> root_path]

\* self.__create(path) run by the caller: the new file, or the error of
\* os.makedirs / sqlite3.connect when the caller may not write there.
CreateAt(fs, euid, version, path) ==
    IF CanWrite(euid, path)
    THEN [error |-> "ok", fs |-> [fs EXCEPT ![path] = __create(version)]]
    ELSE [error |-> IF fs[path].kind = "nodir"
                    THEN "OSError" ELSE "OperationalError",
          fs |-> fs]

\* sqlite3.connect(path): opens the file, creating an empty one when there
\* is none and the directory is there and writable.
Connect(fs, euid, path) ==
    IF Exists(fs[path])
    THEN [error |-> "ok", fs |-> fs]
    ELSE IF fs[path].kind = "nofile" /\ CanWrite(euid, path)
    THEN [error |-> "ok", fs |-> [fs EXCEPT ![path] = EmptyDB]]
    ELSE [error |-> "OperationalError", fs |-> fs]

\* Lines 80-82: the refusal to use a TCC database of root's own.
RootRefused(service, user, forceroot) ==
    /\ user = "root"
    /\ ~forceroot
    /\ available_services[service][2] # "root"

\* Lines 131 and 136: the user for whom the local file is created and must
\* be writable.
MayCreateLocal(user, forceroot) ==
    (user = "root" /\ forceroot) \/ user # "root"

\* TCCEdit.__init__: the files it leaves, how it ended and the session.
__init__(fs, euid, version, service, userarg, template, lang, forceroot, admin) ==
    LET user == IF userarg = "" THEN getuser(euid) ELSE userarg
        Fail(f, e) == [fs |-> f, outcome |-> e, self |-> NoSession]
        expanded == IF template THEN TemplatePath(lang) ELSE expanduser(user)
        local_path ==
            IF IsAbsolute(expanded)
            THEN expanded
            ELSE "/Users/" \o user
                     \o "/Library/Application Support/com.apple.TCC/TCC.db"
        fs1 == IF euid = 0 /\ ~Exists(fs[root_path])
               THEN CreateAt(fs, euid, version, root_path).fs
               ELSE fs
        made == IF ~Exists(fs1[local_path]) /\ MayCreateLocal(user, forceroot)
                THEN CreateAt(fs1, euid, version, local_path)
                ELSE [error |-> "ok", fs |-> fs1]
        conn == Connect(made.fs, euid, local_path)
    IN  IF version < 12
        THEN Fail(fs, "RuntimeError")
        ELSE IF template /\ euid # 0
        THEN Fail(fs, "ValueError")
        ELSE IF ~template /\ user = "root" /\ ~forceroot
                /\ service \notin DOMAIN available_services
        THEN Fail(fs, "KeyError")
        ELSE IF ~template /\ RootRefused(service, user, forceroot)
        THEN Fail(fs, "ValueError")
        ELSE IF ~IsAbsolute(expanded) /\ ~UsersDirExists(user)
        THEN Fail(fs, "ValueError")
        ELSE IF made.error # "ok"
        THEN Fail(made.fs, made.error)
        ELSE IF ~access_W_OK(made.fs, euid, local_path)
                /\ MayCreateLocal(user, forceroot)
        THEN Fail(made.fs, "ValueError")
        ELSE IF conn.error # "ok"
        THEN Fail(conn.fs, conn.error)
        ELSE [fs |-> conn.fs, outcome |-> "ok",
              self |-> [service |-> service, admin |-> admin,
                        version |-> version, root |-> (euid = 0),
                        local |-> TRUE, local_path |-> local_path]]

\* The two connections filed under each other's key.
connections_swapped(self) ==
    [root |-> IF self.local THEN self.local_path ELSE None,
     local |-> IF self.root THEN root_path ELSE None]

\* self.connections: the path behind each connection, None when absent.
connections(self) ==
    [root |-> IF self.root THEN root_path ELSE None,
     local |-> IF self.local THEN self.local_path ELSE None]

(***************************************************************************)
(* Relational Mutation Engine: TCCEdit.insert, remove, disable             *)
(***************************************************************************)

\* What one call did: the files afterwards, how it ended ("ok", "return"
\* for an early return, or the error raised), and, when it came that far,
\* the client, the service name and the database it addressed.
Ended(fs, outcome) ==
    [fs |-> fs, outcome |-> outcome, client |-> None, name |-> None,
     path |-> None]

Addressed(fs, outcome, client, name, path) ==
    [fs |-> fs, outcome |-> outcome, client |-> client, name |-> name,
     path |-> path]

\* Lines 160-163: the bundle identifier, or in admin mode the absolute path.
Client(self, target) ==
    IF ~self.admin THEN AppInfoBid(target) ELSE abspath(target)

\* A selection that falls back on contacts when the session has no service.
SelectServiceOrContacts(self, service) ==
    IF service # None
    THEN None
    ELSE IF self.service # "" THEN self.service ELSE "contacts"

\* Lines 166-169: "if service is None and self.service: service =
\* self.service / else: return". The service the call goes on with, None
\* when it returns.
SelectService(self, service) ==
    IF service = None /\ self.service # "" THEN self.service ELSE None

\* The row of disable, pasted into insert.
InsertValuesOfDisable(version, name, client) ==
    IF version = 12
    THEN <<name, client, 0, 0, 1>>
    ELSE <<name, client, 0, 0, 1, NULL>>

\* Lines 204-208: the row insert writes.
InsertValues(version, name, client) ==
    IF version = 12
    THEN <<name, client, 0, 1, 0>>
    ELSE <<name, client, 0, 1, 0, NULL>>

\* The row of disable with the version test left out.
DisableValuesSixAlways(version, name, client) ==
    <<name, client, 0, 0, 1, NULL>>

\* The row of disable with the prompt count of insert.
DisableValuesNoPrompt(version, name, client) ==
    IF version = 12
    THEN <<name, client, 0, 0, 0>>
    ELSE <<name, client, 0, 0, 0, NULL>>

\* Lines 307-314: the row disable writes.
DisableValues(version, name, client) ==
    IF version = 12
    THEN <<name, client, 0, 0, 1>>
    ELSE <<name, client, 0, 0, 1, NULL>>

\* disable with the test of the count left out.
DisableWritesAlways(count) == TRUE

\* Lines 308-314: disable writes its row only "if count".
DisableWrites(count) == count # 0

\* Lines 179-181: insert's version check for the service.
VersionTooOld(version, service) == version < available_services[service][3]

\* The statements run against the chosen database, committed when none
\* raises.
Execute(fs, res, client, name, path) ==
    IF res.error = "ok"
    THEN Addressed([fs EXCEPT ![path] = res.db], "ok", client, name, path)
    ELSE Addressed(fs, res.error, client, name, path)

insert(self, fs, target, service) ==
    LET client == Client(self, target)
        chosen == SelectService(self, service)
        key == lower(chosen)
        name == available_services[key][1]
        path == connections(self)[available_services[key][2]]
    IN  IF target = None
        THEN Ended(fs, "return")
        ELSE IF client = NotFound
        THEN Ended(fs, "AppNotFound")
        ELSE IF chosen = None
        THEN Addressed(fs, "return", client, None, None)
        ELSE IF key \notin DOMAIN available_services
        THEN Ended(fs, "ValueError")
        ELSE IF VersionTooOld(self.version, key)
        THEN Addressed(fs, "RuntimeError", client, name, None)
        ELSE IF path = None
        THEN Addressed(fs, "ValueError", client, name, None)
        ELSE Execute(fs,
                     Upsert(fs[path],
                            InsertValues(self.version, name, client)),
                     client, name, path)

remove(self, fs, target, service) ==
    LET client == Client(self, target)
        chosen == SelectService(self, service)
        key == lower(chosen)
        name == available_services[key][1]
        path == connections(self)[available_services[key][2]]
    IN  IF target = None
        THEN Ended(fs, "return")
        ELSE IF client = NotFound
        THEN Ended(fs, "AppNotFound")
        ELSE IF chosen = None
        THEN Addressed(fs, "return", client, None, None)
        ELSE IF key \notin DOMAIN available_services
        THEN Ended(fs, "ValueError")
        ELSE IF path = None
        THEN Addressed(fs, "ValueError", client, name, None)
        ELSE Execute(fs, Delete(fs[path], <<name, client>>),
                     client, name, path)

\* disable that inserts an absent row first, as its docstring says, and then
\* goes by the count it took before the insert.
disable_stale_count(self, fs, target, service) ==
    LET client == Client(self, target)
        chosen == SelectService(self, service)
        key == lower(chosen)
        name == available_services[key][1]
        path == connections(self)[available_services[key][2]]
        values == DisableValues(self.version, name, client)
        added == Upsert(fs[path], InsertValues(self.version, name, client))
    IN  IF target = None
        THEN Ended(fs, "return")
        ELSE IF client = NotFound
        THEN Ended(fs, "AppNotFound")
        ELSE IF chosen = None
        THEN Addressed(fs, "return", client, None, None)
        ELSE IF key \notin DOMAIN available_services
        THEN Ended(fs, "ValueError")
        ELSE IF path = None
        THEN Addressed(fs, "ValueError", client, name, None)
        ELSE IF ~HasAccess(fs[path])
        THEN Addressed(fs, "NoSuchTable", client, name, path)
        ELSE IF DisableWrites(SelectCount(fs[path], values))
        THEN Execute(fs, Upsert(fs[path], values), client, name, path)
        ELSE Execute(fs, added, client, name, path)

disable(self, fs, target, service) ==
    LET client == Client(self, target)
        chosen == SelectService(self, service)
        key == lower(chosen)
        name == available_services[key][1]
        path == connections(self)[available_services[key][2]]
        values == DisableValues(self.version, name, client)
    IN  IF target = None
        THEN Ended(fs, "return")
        ELSE IF client = NotFound
        THEN Ended(fs, "AppNotFound")
        ELSE IF chosen = None
        THEN Addressed(fs, "return", client, None, None)
        ELSE IF key \notin DOMAIN available_services
        THEN Ended(fs, "ValueError")
        ELSE IF path = None
        THEN Addressed(fs, "ValueError", client, name, None)
        ELSE IF ~HasAccess(fs[path])
        THEN Addressed(fs, "NoSuchTable", client, name, path)
        ELSE IF DisableWrites(SelectCount(fs[path], values))
        THEN Execute(fs, Upsert(fs[path], values), client, name, path)
        ELSE Addressed(fs, "ok", client, name, path)

(***************************************************************************)
(* The machine before a session: files the operating system left behind    *)
(***************************************************************************)

\* A row of access in a database whose access table has n columns.
Row(n, name, client, client_type, allowed, prompt_count, csreq) ==
    IF n = 5
    THEN <<name, client, client_type, allowed, prompt_count>>
    ELSE <<name, client, client_type, allowed, prompt_count, csreq>>

\* Rows the operating system's own consent prompts have left in a user's
\* database: an allowed application, the same application recorded by path
\* (client_type 1), a denied one, and a denied iCloud client where the
\* service exists.
OsLocalRows(version, n) ==
    {Row(n, "kTCCServiceAddressBook", "com.apple.Safari", 0, 1, 1, "csreq"),
     Row(n, "kTCCServiceAddressBook", "/Applications/Safari.app", 1, 1, 1,
         NULL),
     Row(n, "kTCCServiceAddressBook", "com.apple.Maps", 0, 0, 1, NULL)}
    \cup (IF version >= 13
          THEN {Row(n, "kTCCServiceUbiquity", "com.apple.Safari", 0, 0, 1,
                    NULL)}
          ELSE {})

OsGlobalRows(version, n) ==
    IF version >= 13
    THEN {Row(n, "kTCCServiceAccessibility", "com.apple.Safari", 0, 1, 1,
              "csreq"),
          Row(n, "kTCCServiceAccessibility", "com.apple.Maps", 0, 0, 1, NULL)}
    ELSE {}

\* A database written by the operating system of the given version.
OsDB(version, rows) ==
    [kind |-> "db", tables |-> CreatedTables(version), admin |-> AdminRows,
     access |-> rows, origin |-> "os"]

\* The other dialect: a file made under the five-column layout found by a
\* six-column session, and the reverse.
OtherDialect(version) == IF version = 12 THEN 13 ELSE 12

LocalFiles(version) ==
    IF version < 12
    THEN {NoDir, NoFile}
    ELSE {NoDir, NoFile,
          OsDB(version, OsLocalRows(version, Len(AccessTable(version).cols))),
          OsDB(OtherDialect(version),
               OsLocalRows(version,
                           Len(AccessTable(OtherDialect(version)).cols)))}

GlobalFiles(version) ==
    IF version < 12
    THEN {NoFile}
    ELSE {NoFile,
          OsDB(version,
               OsGlobalRows(version, Len(AccessTable(version).cols)))}

(***************************************************************************)
(* Location Services: the preference files and the locationd daemon        *)
(***************************************************************************)

\* Darwin versions a Location Services session is tried on.
LSVersions == {9, 11, 13, 14}

\* Two LSEdit objects may be alive at once.
Sessions == {"e1", "e2"}

\* A string as the sequence of its characters.
HardwareUUID == <<"A", "B", "-", "C", "D">>

\* 'com.apple.locationd.' and '.plist'
NamePrefix ==
    <<"c", "o", "m", ".", "a", "p", "p", "l", "e", ".", "l", "o", "c", "a",
      "t", "i", "o", "n", "d", ".">>

NameSuffix == <<".", "p", "l", "i", "s", "t">>

\* The characters of a string (the elements of a sequence), as a set.
CharsOf(str) == {str[i] : i \in 1..Len(str)}

RECURSIVE lstrip(_, _)
\* str.lstrip(chars): leading characters that are in chars are dropped.
lstrip(str, chars) ==
    IF str # <<>> /\ Head(str) \in chars
    THEN lstrip(Tail(str), chars)
    ELSE str

RECURSIVE rstrip(_, _)
\* str.rstrip(chars): trailing characters that are in chars are dropped.
rstrip(str, chars) ==
    IF str # <<>> /\ str[Len(str)] \in chars
    THEN rstrip(SubSeq(str, 1, Len(str) - 1), chars)
    ELSE str

LowerChar(c) ==
    CASE c = "A" -> "a" [] c = "B" -> "b" [] c = "C" -> "c" [] c = "D" -> "d"
      [] c = "E" -> "e" [] c = "F" -> "f" [] OTHER -> c

UpperChar(c) ==
    CASE c = "a" -> "A" [] c = "b" -> "B" [] c = "c" -> "C" [] c = "d" -> "D"
      [] c = "e" -> "E" [] c = "f" -> "F" [] OTHER -> c

str_lower(str) == [i \in 1..Len(str) |-> LowerChar(str[i])]

str_upper(str) == [i \in 1..Len(str) |-> UpperChar(str[i])]

RECURSIVE split(_, _)
\* str.split(sep) for a one-character separator.
split(str, sep) ==
    IF \A i \in 1..Len(str) : str[i] # sep
    THEN <<str>>
    ELSE LET k == CHOOSE i \in 1..Len(str) :
                      str[i] = sep /\ \A j \in 1..(i - 1) : str[j] # sep
         IN  <<SubSeq(str, 1, k - 1)>>
                 \o split(SubSeq(str, k + 1, Len(str)), sep)

\* x.find('.') >= 0
HasDot(str) == \E i \in 1..Len(str) : str[i] = "."

\* Line 196 and line 202: a string equal to the identifier as it is, in
\* lower case or in upper case.
FoldedMatch(str, id) == str = id \/ str_lower(str) = id \/ str_upper(str) = id

\* Lines 196-206: the identifier matches the UUID or one of its parts.
MatchesUUID(uuid, id) ==
    \/ FoldedMatch(uuid, id)
    \/ \E k \in 1..Len(split(uuid, "-")) : FoldedMatch(split(uuid, "-")[k], id)

\* Lines 188-193: what the list comprehension makes of a file name that
\* starts with 'com.apple.locationd.' and ends with '.plist'.
Stripped(id) ==
    rstrip(lstrip(NamePrefix \o id \o NameSuffix, CharsOf(NamePrefix)),
           CharsOf(NameSuffix))

\* Identifiers of files in ByHost, as com.apple.locationd.<id>.plist.
LowerUUID == <<"a", "b", "-", "c", "d">>

PartCD == <<"C", "D">>

PartAB == <<"A", "B">>

OtherUUID == <<"E", "F", "-", "9", "9">>

NotBackedUp == <<"n", "o", "t", "b", "a", "c", "k", "e", "d", "u", "p", ".", "A", "B", "-", "C", "D">>

\* What the directory may hold before a session.
Listings ==
    {{HardwareUUID}, {HardwareUUID, OtherUUID}, {}, {OtherUUID}, {PartCD},
     {LowerUUID, OtherUUID}, {PartCD, OtherUUID}, {PartAB, PartCD},
     {NotBackedUp}, {NotBackedUp, PartCD}}

\* Every file of ByHost the model can name.
FlagIds ==
    UNION Listings \cup {Stripped(id) : id \in UNION Listings}

NoKeys == [k \in {} |-> "0"]

\* dict[key] = value on a flat dictionary.
Put(dict, key, value) ==
    [k \in DOMAIN dict \cup {key} |-> IF k = key THEN value ELSE dict[k]]

\* Lines 185-216: the identifiers whose file enable_global may settle on,
\* None among them when it ends with ls_plist unset.
ChosenIds(files, uuid) ==
    LET listed == {id \in FlagIds : files[id].exists}
        kept == {id \in listed : ~HasDot(Stripped(id))}
        potentials == {Stripped(id) : id \in kept}
        matching == {id \in potentials : MatchesUUID(uuid, id)}
    IN  IF uuid \in listed
        THEN {uuid}
        ELSE IF Cardinality(kept) > 1
        THEN IF matching = {} THEN {<<>>} ELSE matching
        ELSE IF Cardinality(kept) = 1
        THEN potentials
        ELSE {<<>>}

\* The key chosen with the comparison off by one.
FlagKeyOffByOne(version) ==
    IF version <= 14
    THEN "LocationServicesEnabled"
    ELSE "LocationServicesEnabledIn7.0"

\* Lines 220-223: the key the flag is written under.
FlagKey(version) ==
    IF version < 14
    THEN "LocationServicesEnabled"
    ELSE "LocationServicesEnabledIn7.0"

\* The value with the argument ignored.
FlagValueAlwaysOn(enable) == "1"

\* int(enable)
FlagValue(enable) == IF enable THEN "1" ELSE "0"

\* PlistEditor(ls_plist).write(key, value, "int")
WriteFlag(files, id, key, value) ==
    [files EXCEPT ![id] = [exists |-> TRUE, keys |-> Put(@.keys, key, value)]]

\* enable_global(enable, version) settling on the file id (<<>>: on none):
\* the files afterwards, how it ended, and what it wrote where.
enable_global(files, id, enable, version) ==
    IF id = <<>>
    THEN [files |-> files, outcome |-> "TypeError", file |-> <<>>,
          key |-> None, value |-> None]
    ELSE [files |-> WriteFlag(files, id, FlagKey(version), FlagValue(enable)),
          outcome |-> "ok", file |-> id, key |-> FlagKey(version),
          value |-> FlagValue(enable)]

\* AppInfo(app): bundle path, executable and name of a bundle identifier.
AppInfoPath(bid) ==
    CASE bid = "com.apple.Maps" -> "/Applications/Maps.app"
      [] bid = "com.apple.Safari" -> "/Applications/Safari.app"
      [] OTHER -> None

AppInfoExecutable(bid) ==
    CASE bid = "com.apple.Maps" -> "Maps"
      [] bid = "com.apple.Safari" -> "Safari"
      [] OTHER -> None

\* app.bid.split('.')[1]
SecondComponent(bid) ==
    CASE bid = "com.apple.Maps" -> "apple"
      [] bid = "com.apple.Safari" -> "apple"
      [] OTHER -> None

\* Lines 79-82
Requirement(bid) ==
    "identifier \"" \o bid \o "\" and anchor " \o SecondComponent(bid)

\* Lines 86-94: the nine keys insert writes, in the order it writes them.
InsertKeys ==
    <<"Authorized", "BundleID", "BundleId", "BundlePath", "Executable",
      "Registered", "Hide", "Requirement", "Whitelisted">>

\* Lines 86-94: the value insert writes under each key.
InsertValue(bid, key) ==
    CASE key = "Authorized" -> "TRUE"
      [] key = "BundleID" -> bid
      [] key = "BundleId" -> bid
      [] key = "BundlePath" -> AppInfoPath(bid)
      [] key = "Executable" -> AppInfoExecutable(bid)
      [] key = "Registered" -> AppInfoExecutable(bid)
      [] key = "Hide" -> "0"
      [] key = "Requirement" -> Requirement(bid)
      [] key = "Whitelisted" -> "FALSE"

\* Applications handed to the Location Services editor ('' is none: the
\* global switch).
LSApps == {"", "Maps.app", "nosuchapp"}

\* How many of the writes of one call may fail.
MaxFailures == 1

\* The writes that are made to fail: the first, one in the middle and the
\* last of the nine.
FailingKeys == {InsertKeys[1], InsertKeys[5], InsertKeys[9]}

\* The sets of keys whose dict_add fails in one call.
Failures == {f \in SUBSET FailingKeys : Cardinality(f) <= MaxFailures}

\* self.plist.dict_add(bid, key, value): 0 and the key written, or, when the
\* write fails, a non-zero result and the file as it was.
dict_add(plist, bid, key, value, failing) ==
    IF key \in failing
    THEN plist
    ELSE Put(plist, bid, Put(IF bid \in DOMAIN plist THEN plist[bid] ELSE NoKeys, key, value))

RECURSIVE AddKeys(_, _, _, _)
\* The dict_add calls of insert for the keys from the i-th on.
AddKeys(plist, bid, i, failing) ==
    IF i > Len(InsertKeys)
    THEN plist
    ELSE AddKeys(dict_add(plist, bid, InsertKeys[i], InsertValue(bid, InsertKeys[i]), failing), bid, i + 1, failing)

\* self.plist.read(bid): the group, empty when there is none.
plist_read(plist, bid) == IF bid \in DOMAIN plist THEN plist[bid] ELSE NoKeys

\* A delete that takes only the Authorized key out of the group.
plist_delete_authorized(plist, bid) ==
    [b \in DOMAIN plist |->
        IF b = bid
        THEN [k \in DOMAIN plist[b] \ {"Authorized"} |-> plist[b][k]]
        ELSE plist[b]]

\* self.plist.delete(bid)
plist_delete(plist, bid) == [b \in DOMAIN plist \ {bid} |-> plist[b]]

LSEnded(plist, outcome) == [plist |-> plist, outcome |-> outcome]

\* LSEdit.insert for an application: lines 73-98.
ls_insert(plist, app, failing) ==
    LET bid == AppInfoBid(app)
    IN  IF bid = NotFound
        THEN LSEnded(plist, "AppNotFound")
        ELSE IF failing # {}
        THEN LSEnded(AddKeys(plist, bid, 1, failing), "RuntimeError")
        ELSE LSEnded(AddKeys(plist, bid, 1, failing), "ok")

\* LSEdit.remove for an application: lines 114-123.
ls_remove(plist, app, fails) ==
    LET bid == AppInfoBid(app)
    IN  IF bid = NotFound
        THEN LSEnded(plist, "AppNotFound")
        ELSE IF fails
        THEN LSEnded(plist, "RuntimeError")
        ELSE LSEnded(plist_delete(plist, bid), "ok")

\* A disable that writes Authorized without adding an absent application
\* first.
ls_disable_no_insert(plist, app, failing, fails) ==
    LET bid == AppInfoBid(app)
    IN  IF bid = NotFound
        THEN LSEnded(plist, "AppNotFound")
        ELSE IF fails \/ failing # {}
        THEN LSEnded(plist, "RuntimeError")
        ELSE LSEnded(dict_add(plist, bid, "Authorized", "FALSE", {}), "ok")

\* LSEdit.disable for an application: lines 141-154. failing are the writes
\* of the insert it may make that fail, fails whether its own write does.
ls_disable(plist, app, failing, fails) ==
    LET bid == AppInfoBid(app)
        added == IF plist_read(plist, bid) = NoKeys
                 THEN ls_insert(plist, bid, failing)
                 ELSE LSEnded(plist, "ok")
    IN  IF bid = NotFound
        THEN LSEnded(plist, "AppNotFound")
        ELSE IF added.outcome # "ok"
        THEN added
        ELSE IF fails
        THEN LSEnded(added.plist, "RuntimeError")
        ELSE LSEnded(dict_add(added.plist, bid, "Authorized", "FALSE", {}), "ok")

\* location_services.py:279-293 disable(): launchctl unload; check_output
\* raises when launchctl fails.
launchctl_unload(state, succeeds) ==
    IF succeeds
    THEN [daemon |-> "Stopped", outcome |-> "ok",
          ran |-> <<"launchctl unload">>]
    ELSE [daemon |-> state, outcome |-> "CalledProcessError",
          ran |-> <<"launchctl unload">>]

\* An enable that loads the daemon first and repairs the ownership after.
enable_load_first(state, chown_ok, load_ok) ==
    IF ~load_ok
    THEN [daemon |-> state, outcome |-> "CalledProcessError",
          ran |-> <<"launchctl load">>]
    ELSE IF ~chown_ok
    THEN [daemon |-> "Running", outcome |-> "RuntimeError",
          ran |-> <<"launchctl load", "chown">>]
    ELSE [daemon |-> "Running", outcome |-> "ok",
          ran |-> <<"launchctl load", "chown">>]

\* location_services.py:247-277 enable(): chown -R _locationd, then
\* launchctl load.
enable(state, chown_ok, load_ok) ==
    IF ~chown_ok
    THEN [daemon |-> state, outcome |-> "RuntimeError", ran |-> <<"chown">>]
    ELSE IF ~load_ok
    THEN [daemon |-> state, outcome |-> "CalledProcessError",
          ran |-> <<"chown", "launchctl load">>]
    ELSE [daemon |-> "Running", outcome |-> "ok",
          ran |-> <<"chown", "launchctl load">>]

(***************************************************************************)
(* State                                                                   *)
(***************************************************************************)

VARIABLES
    euid,       \* os.geteuid() of the calling process
    version,    \* the Darwin major version of the machine
    fs,         \* the TCC.db file at each path
    self,       \* the TCCEdit object
    pc,         \* "start", "open", "failed" or "closed"
    last,       \* the last call made and how it ended
    daemon,     \* locationd: "Running" or "Stopped"
    clients,    \* /var/db/locationd/clients: a key group per application
    byhost,     \* the com.apple.locationd.<id>.plist files of ByHost
    ls,         \* each LSEdit object: where it is and the version it read
    lslast,     \* the last Location Services call and how it ended
    main        \* privacy_services_manager.main: where it is in its loop

tccvars == <<fs, self, pc, last>>

lsvars == <<daemon, clients, byhost, ls, lslast>>

vars == <<euid, version, fs, self, pc, last, daemon, clients, byhost, ls, lslast, main>>

\* main has not been called.
NoMain ==
    [pc |-> "start", action |-> "none", service |-> "", apps |-> <<>>,
     i |-> 0, log |-> <<>>, error |-> "none"]

NoFlagFile == [exists |-> FALSE, keys |-> NoKeys]

\* ran: the commands the call handed to subprocess, in order.
NoLSCall ==
    [op |-> "none", session |-> "none", bid |-> None, outcome |-> "none",
     file |-> <<>>, key |-> None, value |-> None, ran |-> <<>>]

NoLSSession == [pc |-> "start", version |-> 0]

\* The Location Services side while the TCC editor is at work.
LSIdle ==
    /\ daemon = "Running"
    /\ clients = [b \in {} |-> NoKeys]
    /\ byhost = [id \in FlagIds |-> NoFlagFile]
    /\ ls = [s \in Sessions |-> NoLSSession]
    /\ lslast = NoLSCall
    /\ main = NoMain

\* The TCC side while the Location Services editor is at work.
TCCIdle ==
    /\ fs = [p \in Paths |-> NoFile]
    /\ self = NoSession
    /\ pc = "start"
    /\ last = [op |-> "none", explicit |-> FALSE, outcome |-> "none",
               client |-> None, name |-> None, path |-> None, rows |-> {},
               service |-> None]

\* The rows of access for (service name, client), of every client_type.
PairRows(f, path, name, client) ==
    IF path = None
    THEN {}
    ELSE {r \in f[path].access : r[1] = name /\ r[2] = client}

NoCall ==
    [op |-> "none", explicit |-> FALSE, outcome |-> "none", client |-> None,
     name |-> None, path |-> None, rows |-> {}, service |-> None]

\* The record of a call: the service argument it was given, how it ended,
\* and in rows the rows the addressed pair had in the files the call found.
Call(op, service, res, before) ==
    [op |-> op, explicit |-> (service # None), outcome |-> res.outcome,
     client |-> res.client, name |-> res.name, path |-> res.path,
     rows |-> PairRows(before, res.path, res.name, res.client),
     service |-> service]

Init ==
    /\ euid \in Euids
    /\ version \in Versions
    /\ \E g \in GlobalFiles(version), l \in LocalFiles(version) :
           fs = [p \in Paths |-> IF p = root_path THEN g ELSE l]
    /\ self = NoSession
    /\ pc = "start"
    /\ last = NoCall
    /\ LSIdle

\* with TCCEdit(service, logger, user, template, lang, forceroot, admin)
Open(service, userarg, template, forceroot, admin) ==
    /\ pc = "start"
    /\ LET res == __init__(fs, euid, version, service, userarg, template,
                           "English", forceroot, admin)
       IN  /\ fs' = res.fs
           /\ self' = res.self
           /\ pc' = IF res.outcome = "ok" THEN "open" ELSE "failed"
           /\ last' = [NoCall EXCEPT !.op = "open", !.outcome = res.outcome]
    /\ UNCHANGED <<euid, version>>
    /\ UNCHANGED <<lsvars, main>>

Insert(target, service) ==
    /\ pc = "open"
    /\ LET res == insert(self, fs, target, service)
       IN  /\ fs' = res.fs
           /\ last' = Call("insert", service, res, fs)
    /\ UNCHANGED <<euid, version, self, pc>>
    /\ UNCHANGED <<lsvars, main>>

Remove(target, service) ==
    /\ pc = "open"
    /\ LET res == remove(self, fs, target, service)
       IN  /\ fs' = res.fs
           /\ last' = Call("remove", service, res, fs)
    /\ UNCHANGED <<euid, version, self, pc>>
    /\ UNCHANGED <<lsvars, main>>

Disable(target, service) ==
    /\ pc = "open"
    /\ LET res == disable(self, fs, target, service)
       IN  /\ fs' = res.fs
           /\ last' = Call("disable", service, res, fs)
    /\ UNCHANGED <<euid, version, self, pc>>
    /\ UNCHANGED <<lsvars, main>>

\* TCCEdit.__exit__: both connections are closed.
Close ==
    /\ pc = "open"
    /\ pc' = "closed"
    /\ self' = [self EXCEPT !.root = FALSE, !.local = FALSE]
    /\ last' = [NoCall EXCEPT !.op = "close", !.outcome = "ok"]
    /\ UNCHANGED <<euid, version, fs>>
    /\ UNCHANGED <<lsvars, main>>

Next ==
    \/ \E service \in SessionServices, userarg \in UserArgs,
          template \in BOOLEAN, forceroot \in BOOLEAN, admin \in BOOLEAN :
           Open(service, userarg, template, forceroot, admin)
    \/ \E target \in Targets, service \in ServiceArgs :
           Insert(target, service)
    \/ \E target \in Targets, service \in ServiceArgs :
           Remove(target, service)
    \/ \E target \in Targets, service \in ServiceArgs :
           Disable(target, service)
    \/ Close

Spec == Init /\ [][Next]_vars

(***************************************************************************)
(* Properties of the relational mutation engine                            *)
(***************************************************************************)

\* The database the service's scope class selects in the open session.
ScopePath(key) ==
    IF available_services[key][2] = "root" THEN root_path ELSE self.local_path

\* The last call was op, ran its statements and committed.
Succeeded(op) == pc = "open" /\ last.op = op /\ last.outcome = "ok"

\* A row in the dialect of the running version.
Expected(name, client, client_type, allowed, prompt_count) ==
    IF version >= 13
    THEN <<name, client, client_type, allowed, prompt_count, NULL>>
    ELSE <<name, client, client_type, allowed, prompt_count>>

\* C1 (as amended): an insert that succeeds was made in a supported version
\* for a known service whose minimum version is met, addressed the store of
\* the service's scope class, and leaves exactly one row with client_type 0
\* for (service name, target): (service name, target, 0, allowed = 1,
\* prompt_count = 0), with a NULL blob from version 13 on, whatever rows the
\* pair had before; rows of the pair with another client_type stay.
C1_InsertWritesEnabledRow ==
    Succeeded("insert") =>
        LET key == lower(self.service)
            now == PairRows(fs, ScopePath(key), last.name, last.client)
        IN  /\ version >= 12
            /\ key \in DOMAIN available_services
            /\ version >= available_services[key][3]
            /\ last.name = available_services[key][1]
            /\ last.path = ScopePath(key)
            /\ {r \in now : r[3] = 0}
                   = {Expected(last.name, last.client, 0, 1, 0)}
            /\ {r \in now : r[3] # 0} = {r \in last.rows : r[3] # 0}

\* C1 (as claimed): after a successful insert the pair has exactly one row,
\* (service name, target, 0, allowed = 1, prompt_count = 1).
C1_InsertWritesPromptCountOne ==
    Succeeded("insert") =>
        PairRows(fs, last.path, last.name, last.client)
            = {Expected(last.name, last.client, 0, 1, 1)}

\* An insert replaced a row the operating system had written, blob and all.
C1_Witness ==
    /\ Succeeded("insert")
    /\ version >= 13
    /\ \E r \in last.rows : r[3] = 0 /\ r[5] = 1 /\ r[6] # NULL

\* C2 (as claimed): a disable that succeeds leaves the row (service name,
\* target, 0, allowed = 0, prompt_count = 1), whether or not the pair had a
\* row before the call.
C2_DisableLeavesDisabledRow ==
    Succeeded("disable") =>
        {r \in PairRows(fs, last.path, last.name, last.client) : r[3] = 0}
            = {Expected(last.name, last.client, 0, 0, 1)}

\* What insert followed at once by remove of the same target and service
\* leaves.
InsertThenRemove(t, s) == remove(self, insert(self, fs, t, s).fs, t, s)

\* C3 (as amended): insert followed at once by remove of the same (target,
\* service) leaves every access table as it was before the two calls when
\* the pair had no row (of any client_type) before; when it had one, the two
\* calls leave the pair without a row, and the table is not as it was.
C3_InsertRemoveRoundTrip ==
    pc = "open" =>
        \A t \in Targets, s \in ServiceArgs :
            LET end == InsertThenRemove(t, s)
                had == PairRows(fs, end.path, end.name, end.client)
            IN  /\ had = {} => end.fs = fs
                /\ had # {} =>
                       /\ end.fs # fs
                       /\ PairRows(end.fs, end.path, end.name, end.client)
                              = {}

\* C3 (as claimed): insert then remove restores the access table, also when
\* a row for the pair existed before the insert.
C3_RoundTripWithExistingRow ==
    pc = "open" =>
        \A t \in Targets, s \in ServiceArgs : InsertThenRemove(t, s).fs = fs

\* An insert has just added a row to a pair that had none, in a table that
\* holds other rows, and the remove of the same target takes it away again.
C3_Witness ==
    /\ Succeeded("insert")
    /\ last.rows = {}
    /\ fs[last.path].access # PairRows(fs, last.path, last.name, last.client)
    /\ \E t \in Targets :
           LET back == remove(self, fs, t, None)
           IN  /\ back.outcome = "ok"
               /\ back.client = last.client
               /\ back.fs # fs
               /\ back.fs[last.path].access
                      = fs[last.path].access
                            \ PairRows(fs, last.path, last.name, last.client)

\* C4: disable is idempotent: a second disable of the same (target, service)
\* leaves every access table as the first left it.
C4_DisableIdempotent ==
    pc = "open" =>
        \A t \in Targets, s \in ServiceArgs :
            LET once == disable(self, fs, t, s)
                twice == disable(self, once.fs, t, s)
            IN  /\ twice.fs = once.fs
                /\ twice.outcome = once.outcome

\* A disable has just turned an allowed row into a denied one, and doing it
\* again changes nothing.
C4_Witness ==
    /\ Succeeded("disable")
    /\ \E r \in last.rows : r[3] = 0 /\ r[4] = 1
    /\ \E t \in Targets :
           LET again == disable(self, fs, t, None)
           IN  /\ again.client = last.client
               /\ again.outcome = "ok"
               /\ again.fs = fs

\* C5: a remove that reaches a database holding the access table does not
\* fail, whether or not the pair has a row; afterwards the pair has no row
\* of any client_type, every other row and every other file is as before,
\* and a second remove changes nothing.
C5_RemoveDeletesPair ==
    /\ Succeeded("remove") =>
           PairRows(fs, last.path, last.name, last.client) = {}
    /\ pc = "open" =>
           \A t \in Targets, s \in ServiceArgs :
               LET res == remove(self, fs, t, s)
                   had == PairRows(fs, res.path, res.name, res.client)
               IN  (res.path # None /\ HasAccess(fs[res.path])) =>
                       /\ res.outcome = "ok"
                       /\ res.fs[res.path].access
                              = fs[res.path].access \ had
                       /\ \A p \in Paths \ {res.path} : res.fs[p] = fs[p]
                       /\ remove(self, res.fs, t, s).fs = res.fs
                       /\ remove(self, res.fs, t, s).outcome = "ok"

\* A remove has just succeeded on a pair that had no row, and another on a
\* pair that had rows of both client types, other rows staying behind.
C5_Witness ==
    /\ Succeeded("remove")
    /\ \E a, b \in last.rows : a[3] = 0 /\ b[3] = 1
    /\ fs[last.path].access # {}
    /\ \E t \in Targets :
           LET res == remove(self, fs, t, None)
           IN  res.outcome = "ok" /\ res.client = last.client /\ res.fs = fs

\* C9: in a session of version 12 every row insert or disable supplies has
\* exactly five values, in a session of version 13 or later exactly six, the
\* last of them NULL; so no call fails on the column count against a
\* database the Schema Builder made in the session.
C9_DialectMatchesBuiltSchema ==
    /\ \A name \in {"kTCCServiceAddressBook"}, client \in {"com.apple.Safari"} :
           \A v \in Versions \ {11} :
               \A values \in {InsertValues(v, name, client),
                              DisableValues(v, name, client)} :
                   /\ v = 12 => Len(values) = 5
                   /\ v >= 13 => Len(values) = 6 /\ values[6] = NULL
    /\ pc = "open" =>
           \A t \in Targets, s \in ServiceArgs :
               \A res \in {insert(self, fs, t, s), disable(self, fs, t, s)} :
                   (res.path # None /\ fs[res.path].origin = "create")
                       => res.outcome # "ColumnCount"
    /\ (pc = "open" /\ last.outcome = "ColumnCount") =>
           fs[last.path].origin = "os"

\* In version 12 a disable has just rewritten a row in a database the Schema
\* Builder made.
C9_Witness ==
    /\ Succeeded("disable")
    /\ version = 12
    /\ last.rows # {}
    /\ fs[last.path].origin = "create"
    /\ Len(fs[last.path].tables["access"].cols) = 5

\* The names of a table's columns, in order.
ColumnNames(table) == [i \in 1..Len(table.cols) |-> table.cols[i].name]

\* C10: a database made by the Schema Builder holds exactly the tables
\* admin, access, access_times and access_overrides; admin holds the single
\* row version = 7; access has the columns service, client, client_type,
\* allowed, prompt_count in version 12 and the nullable blob csreq after
\* them from version 13 on, with primary key (service, client, client_type).
C10_SchemaBuilderLayout ==
    \A p \in Paths :
        fs[p].origin = "create" =>
            /\ version >= 12
            /\ DOMAIN fs[p].tables
                   = {"admin", "access", "access_times", "access_overrides"}
            /\ fs[p].admin = {<<"version", 7>>}
            /\ ColumnNames(fs[p].tables["admin"]) = <<"key", "value">>
            /\ fs[p].tables["access"].pk
                   = <<"service", "client", "client_type">>
            /\ version = 12 =>
                   ColumnNames(fs[p].tables["access"])
                       = <<"service", "client", "client_type", "allowed",
                           "prompt_count">>
            /\ version >= 13 =>
                   /\ ColumnNames(fs[p].tables["access"])
                          = <<"service", "client", "client_type", "allowed",
                              "prompt_count", "csreq">>
                   /\ fs[p].tables["access"].cols[6]
                          = [name |-> "csreq", type |-> "BLOB",
                             notnull |-> FALSE]
            /\ \A i \in 1..5 : fs[p].tables["access"].cols[i].notnull
            /\ ColumnNames(fs[p].tables["access_times"])
                   = <<"service", "client", "client_type", "last_used_time">>
            /\ ColumnNames(fs[p].tables["access_overrides"]) = <<"service">>

\* A session of version 14 has built both databases.
C10_Witness ==
    /\ pc = "open"
    /\ version = 14
    /\ fs[root_path].origin = "create"
    /\ fs[self.local_path].origin = "create"

(***************************************************************************)
(* The Location Services editor: LSEdit                                    *)
(***************************************************************************)

\* A key group the daemon wrote for an application that asked for the
\* user's location.
SafariGroup ==
    [Authorized |-> "TRUE", BundleId |-> "com.apple.Safari",
     Executable |-> "Safari", Registered |-> "Safari",
     Requirement |-> Requirement("com.apple.Safari"), Whitelisted |-> "FALSE"]

\* The clients file before a session.
ClientFiles ==
    {[b \in {} |-> NoKeys], [b \in {"com.apple.Safari"} |-> SafariGroup]}

InitLS ==
    /\ euid \in Euids
    /\ version \in LSVersions
    /\ daemon = "Running"
    /\ clients \in ClientFiles
    /\ \E listing \in Listings :
           byhost = [id \in FlagIds |->
                        [exists |-> id \in listing, keys |-> NoKeys]]
    /\ ls = [s \in Sessions |-> NoLSSession]
    /\ lslast = NoLSCall
    /\ main = NoMain
    /\ TCCIdle

LSCall(op, s, bid, outcome) ==
    [NoLSCall EXCEPT !.op = op, !.session = s, !.bid = bid,
                     !.outcome = outcome]

LSGlobalCall(op, s, res) ==
    [NoLSCall EXCEPT !.op = op, !.session = s, !.outcome = res.outcome,
                     !.file = res.file, !.key = res.key, !.value = res.value]

\* LSEdit.__init__: lines 26-54. unload_ok: launchctl unload succeeds;
\* plist_ok: PlistEditor opens the clients file.
LSOpen(s, unload_ok, plist_ok) ==
    /\ ls[s].pc = "start"
    /\ LET stop == launchctl_unload(daemon, unload_ok)
           outcome ==
               IF euid # 0
               THEN "RuntimeError"
               ELSE IF version < 10
               THEN "RuntimeError"
               ELSE IF stop.outcome # "ok"
               THEN stop.outcome
               ELSE IF ~plist_ok
               THEN "PlistError"
               ELSE "ok"
       IN  /\ daemon' = IF euid # 0 \/ version < 10 THEN daemon ELSE stop.daemon
           /\ ls' = [ls EXCEPT ![s] =
                        IF outcome = "ok"
                        THEN [pc |-> "open", version |-> version]
                        ELSE [pc |-> "failed", version |-> 0]]
           /\ lslast' = [LSCall("open", s, None, outcome) EXCEPT !.ran =
                            IF euid # 0 \/ version < 10
                            THEN <<>> ELSE stop.ran]
    /\ UNCHANGED <<euid, version, clients, byhost>>
    /\ UNCHANGED <<tccvars, main>>

\* The global switch: insert, remove and disable without an application.
LSGlobal(s, op) ==
    /\ ls[s].pc = "open"
    /\ \E id \in ChosenIds(byhost, HardwareUUID) :
           LET res == enable_global(byhost, id, op = "insert", ls[s].version)
           IN  /\ byhost' = res.files
               /\ lslast' = LSGlobalCall(op, s, res)
    /\ UNCHANGED <<euid, version, daemon, clients, ls>>
    /\ UNCHANGED <<tccvars, main>>

\* LSEdit.insert(app)
LSInsert(s, app, failing) ==
    /\ ls[s].pc = "open"
    /\ app # ""
    /\ AppInfoBid(app) = NotFound => failing = {}
    /\ LET res == ls_insert(clients, app, failing)
       IN  /\ clients' = res.plist
           /\ lslast' = LSCall("insert", s, AppInfoBid(app), res.outcome)
    /\ UNCHANGED <<euid, version, daemon, byhost, ls>>
    /\ UNCHANGED <<tccvars, main>>

\* LSEdit.remove(app)
LSRemove(s, app, fails) ==
    /\ ls[s].pc = "open"
    /\ app # ""
    /\ AppInfoBid(app) = NotFound => ~fails
    /\ LET res == ls_remove(clients, app, fails)
       IN  /\ clients' = res.plist
           /\ lslast' = LSCall("remove", s, AppInfoBid(app), res.outcome)
    /\ UNCHANGED <<euid, version, daemon, byhost, ls>>
    /\ UNCHANGED <<tccvars, main>>

\* LSEdit.disable(application)
LSDisable(s, app, failing, fails) ==
    /\ ls[s].pc = "open"
    /\ app # ""
    /\ AppInfoBid(app) = NotFound => failing = {} /\ ~fails
    /\ plist_read(clients, AppInfoBid(app)) # NoKeys => failing = {}
    /\ failing # {} => ~fails
    /\ LET res == ls_disable(clients, app, failing, fails)
       IN  /\ clients' = res.plist
           /\ lslast' = LSCall("disable", s, AppInfoBid(app), res.outcome)
    /\ UNCHANGED <<euid, version, daemon, byhost, ls>>
    /\ UNCHANGED <<tccvars, main>>

\* LSEdit.__exit__: lines 156-162, at the end of the with block whether its
\* body raised or not. chown_ok: chown -R succeeds; load_ok: launchctl load
\* succeeds.
LSClose(s, chown_ok, load_ok) ==
    /\ ls[s].pc = "open"
    /\ LET res == enable(daemon, chown_ok, load_ok)
       IN  /\ daemon' = res.daemon
           /\ lslast' = [LSCall("close", s, None, res.outcome)
                             EXCEPT !.ran = res.ran]
    /\ ls' = [ls EXCEPT ![s].pc = "closed"]
    /\ UNCHANGED <<euid, version, clients, byhost>>
    /\ UNCHANGED <<tccvars, main>>

\* One LSEdit object used in a with statement.
NextLS ==
    \/ \E unload_ok \in BOOLEAN, plist_ok \in BOOLEAN :
           LSOpen("e1", unload_ok, plist_ok)
    \/ \E op \in {"insert", "remove", "disable"} : LSGlobal("e1", op)
    \/ \E app \in LSApps, failing \in Failures : LSInsert("e1", app, failing)
    \/ \E app \in LSApps, fails \in BOOLEAN : LSRemove("e1", app, fails)
    \/ \E app \in LSApps, failing \in Failures, fails \in BOOLEAN :
           LSDisable("e1", app, failing, fails)
    \/ \E chown_ok \in BOOLEAN, load_ok \in BOOLEAN :
           LSClose("e1", chown_ok, load_ok)

SpecLS == InitLS /\ [][NextLS]_vars

(***************************************************************************)
(* Properties of the Location Services editor                              *)
(***************************************************************************)

\* The session's with block has just been left.
JustClosed(s) ==
    ls[s].pc = "closed" /\ lslast.op = "close" /\ lslast.session = s

\* C6 (as claimed): once a session that opened has been closed the daemon is
\* Running, also when the repair of ownership made at close fails (launchctl
\* itself failing to load the daemon is left aside).
C6_DaemonRunningAfterClose ==
    \A s \in Sessions :
        (JustClosed(s) /\ lslast.outcome # "CalledProcessError")
            => daemon = "Running"

\* The last call was the global switch, and it wrote.
WroteFlag ==
    /\ lslast.op \in {"insert", "remove", "disable"}
    /\ lslast.bid = None
    /\ lslast.outcome = "ok"

\* C8: a call of the global switch writes one key, LocationServicesEnabled
\* in every version below 14 and LocationServicesEnabledIn7.0 from version 14
\* on, with the value asked for; no file ever holds the other key.
C8_GlobalFlagKeyByVersion ==
    LET key == IF version >= 14
               THEN "LocationServicesEnabledIn7.0"
               ELSE "LocationServicesEnabled"
    IN  /\ \A id \in FlagIds : DOMAIN byhost[id].keys \subseteq {key}
        /\ WroteFlag =>
               /\ lslast.key = key
               /\ DOMAIN byhost[lslast.file].keys = {key}
               /\ byhost[lslast.file].keys[key] = lslast.value
               /\ lslast.value = IF lslast.op = "insert" THEN "1" ELSE "0"

\* In version 14 the switch has just been turned off in the file named after
\* the hardware UUID.
C8_Witness ==
    /\ WroteFlag
    /\ version = 14
    /\ lslast.op = "disable"
    /\ lslast.file = HardwareUUID
    /\ byhost[HardwareUUID].keys
           = [k \in {"LocationServicesEnabledIn7.0"} |-> "0"]

(***************************************************************************)
(* The command line: privacy_services_manager.main                         *)
(***************************************************************************)

\* The longest list of applications given on the command line.
MaxApps == 2

\* The words of the command line after the service.
MainApps == UNION {[1..n -> {"Safari.app", "nosuchapp", ""}] : n \in 0..MaxApps}

MainActions == {"add", "enable", "remove", "disable"}

\* The services of the relational backend the command line is tried with.
MainServices == {"contacts", "accessibility"}

\* psm.universal.get_editor(service, user, template, language) for a service
\* of the relational backend: a TCCEdit for that service, user and template.
get_editor(files, id, v, service, user, template, language) ==
    __init__(files, id, v, service, user, template, language, FALSE, FALSE)

\* Lines 28-29, 62-63, 78-79: what main does with an empty list before its
\* loop: add and enable append '', remove and disable call the editor with
\* None.
BeforeLoop(action, apps) == IF action \in {"add", "enable"} /\ apps = <<>> THEN <<"">> ELSE apps

\* Lines 30-46: what the loop of add and enable does for one application:
\* it looks up the bundle identifier and logs that it was added or enabled.
AddStep(editor, files, action, app) ==
    IF AppInfoBid(app) = NotFound
    THEN [res |-> Ended(files, "AppNotFound"), entry |-> <<>>]
    ELSE [res |-> Ended(files, "return"),
          entry |-> <<<<IF action = "add" THEN "Added" ELSE "Enabled",
                        AppInfoBid(app)>>>>]

\* Lines 64-75: the loop of remove for one application.
RemoveStep(editor, files, action, app) ==
    [res |-> remove(editor, files, app, None), entry |-> <<<<"Removed", app>>>>]

\* Lines 80-91: the loop of disable for one application.
DisableStep(editor, files, action, app) ==
    [res |-> disable(editor, files, app, None), entry |-> <<<<"Disabled", app>>>>]

\* Lines 30-32, 64-66, 80-82: one turn of the loop for a non-empty app.
LoopStep(editor, files, action, app) ==
    CASE action \in {"add", "enable"} -> AddStep(editor, files, action, app)
      [] action = "remove" -> RemoveStep(editor, files, action, app)
      [] action = "disable" -> DisableStep(editor, files, action, app)

Raised(outcome) == outcome \notin {"ok", "return"}

\* main(apps, service, action, user, template, language, logger) up to the
\* start of its loop: the editor is made and entered.
MainStart(action, service, apps, user, template) ==
    /\ main.pc = "start"
    /\ pc = "start"
    /\ LET made == get_editor(fs, euid, version, service, user, template, "English")
       IN  /\ fs' = made.fs
           /\ self' = made.self
           /\ pc' = IF made.outcome = "ok" THEN "open" ELSE "failed"
           /\ last' = [NoCall EXCEPT !.op = "open", !.outcome = made.outcome]
           /\ main' = [pc |-> IF made.outcome = "ok" THEN "loop" ELSE "done",
                       action |-> action, service |-> service,
                       apps |-> BeforeLoop(action, apps), i |-> 1,
                       log |-> <<>>, error |-> IF made.outcome = "ok" THEN "none" ELSE made.outcome]
    /\ UNCHANGED <<euid, version>>
    /\ UNCHANGED lsvars

\* One turn of "for app in apps": an empty app is passed over; an error
\* raised by the editor leaves the loop.
MainApp ==
    /\ main.pc = "loop"
    /\ main.i <= Len(main.apps)
    /\ LET app == main.apps[main.i]
           step == LoopStep(self, fs, main.action, app)
       IN  IF app = ""
           THEN /\ main' = [main EXCEPT !.i = @ + 1]
                /\ UNCHANGED <<fs, last>>
           ELSE /\ fs' = step.res.fs
                /\ last' = Call(main.action, None, step.res, fs)
                /\ main' = IF Raised(step.res.outcome)
                           THEN [main EXCEPT !.pc = "exit", !.error = step.res.outcome]
                           ELSE [main EXCEPT !.i = @ + 1, !.log = @ \o step.entry]
    /\ UNCHANGED <<euid, version, self, pc>>
    /\ UNCHANGED lsvars

\* The end of the with block: TCCEdit.__exit__, after the loop or after an
\* error.
MainExit ==
    /\ \/ main.pc = "exit"
       \/ main.pc = "loop" /\ main.i > Len(main.apps)
    /\ main' = [main EXCEPT !.pc = "done"]
    /\ pc' = "closed"
    /\ self' = [self EXCEPT !.root = FALSE, !.local = FALSE]
    /\ UNCHANGED <<euid, version, fs, last>>
    /\ UNCHANGED lsvars

NextMain ==
    \/ \E action \in MainActions, service \in MainServices, apps \in MainApps,
          user \in {"", "alice"}, template \in BOOLEAN :
           MainStart(action, service, apps, user, template)
    \/ MainApp
    \/ MainExit

SpecMain == Init /\ [][NextMain]_vars

\* The rows of an application in the store of main's service.
MainRows(app) ==
    LET key == lower(main.service)
    IN  PairRows(fs, ScopePath(key), available_services[key][1], AppInfoBid(app))

\* C7 (as claimed): when main has run add or enable to the end, every
\* application listed is present and enabled in the store of the service.
C7_AddEnablesEveryApp ==
    (main.pc = "done" /\ main.error = "none" /\ main.action \in {"add", "enable"})
        => \A i \in 1..Len(main.apps) :
               main.apps[i] # "" =>
                   \E r \in MainRows(main.apps[i]) : r[3] = 0 /\ r[4] = 1

(***************************************************************************)
(* Properties of the relational session: validation and privilege          *)
(***************************************************************************)

\* The service a recorded call was asked to work on: its service argument,
\* or the session's service when none was given.
Asked(call) == IF call.service # None THEN call.service ELSE self.service

\* The recorded call was given a target that AppInfo resolved (or, in admin
\* mode, a path), so it came as far as the choice of the service.
TargetResolved(call) ==
    /\ call.outcome # "AppNotFound"
    /\ ~(call.outcome = "return" /\ call.client = None)

\* C11 (as claimed): an insert for a service that is not a known key fails
\* with the invalid-service error (ValueError), one for a service introduced
\* after the session's version fails with the unsupported-service error
\* (RuntimeError), and neither changes a row of either store.
C11_InsertRejectsBadService ==
    [][(pc = "open" /\ last'.op = "insert" /\ TargetResolved(last')
            /\ Asked(last') # "")
          => LET key == lower(Asked(last'))
             IN  /\ key \notin DOMAIN available_services
                        => last'.outcome = "ValueError" /\ fs' = fs
                 /\ (key \in DOMAIN available_services
                         /\ VersionTooOld(self.version, key))
                        => last'.outcome = "RuntimeError" /\ fs' = fs]_vars

\* The keys of the services kept in the global store.
RootClassServices ==
    {k \in DOMAIN available_services : available_services[k][2] = "root"}

\* Service arguments naming a root-class service (None: the session's).
RootClassArgs == {None, "accessibility"}

\* C12 (as claimed): for a caller who is not root, whether a session opens
\* does not depend on the global store, opening leaves the global store as
\* it was and the global connection absent, and every later insert, remove
\* or disable of a resolvable target for a root-class service fails with the
\* permission error (ValueError "Must be root ...") and changes no store.
C12_UnprivilegedGlobalDenied ==
    /\ (pc = "start" /\ euid # 0) =>
           \A service \in SessionServices, userarg \in UserArgs,
              forceroot \in BOOLEAN, g \in GlobalFiles(version) :
               LET seen == __init__(fs, euid, version, service, userarg,
                                    FALSE, "English", forceroot, FALSE)
                   other == __init__([fs EXCEPT ![root_path] = g], euid,
                                     version, service, userarg, FALSE,
                                     "English", forceroot, FALSE)
               IN  /\ seen.outcome = other.outcome
                   /\ seen.fs[root_path] = fs[root_path]
    /\ (pc = "open" /\ euid # 0) =>
           /\ ~self.root
           /\ connections(self)["root"] = None
           /\ \A t \in Targets, s \in RootClassArgs :
                  LET asked == IF s # None THEN s ELSE self.service
                  IN  (t # None /\ Client(self, t) # NotFound
                          /\ lower(asked) \in RootClassServices) =>
                          \A res \in {insert(self, fs, t, s),
                                      remove(self, fs, t, s),
                                      disable(self, fs, t, s)} :
                              res.outcome = "ValueError" /\ res.fs = fs

\* C13 (as claimed): TCCEdit(service) made by root for root (no user given)
\* without forceroot and without template is refused whatever the service,
\* and the step leaves no TCC.db in root's home that was not there before.
C13_RootStoreRefused ==
    [][\A service \in SessionServices, admin \in BOOLEAN :
           (euid = 0 /\ Open(service, "", FALSE, FALSE, admin)) =>
               /\ pc' = "failed"
               /\ Exists(fs'[expanduser("root")])
                      => Exists(fs[expanduser("root")])]_vars

(***************************************************************************)
(* Properties of the Location Services editor                              *)
(***************************************************************************)

\* Every group of the clients file but the application's is as it was.
OtherGroupsUnchanged(bid) ==
    /\ DOMAIN clients' \ {bid} = DOMAIN clients \ {bid}
    /\ \A b \in DOMAIN clients \ {bid} : clients'[b] = clients[b]

\* C14: an insert of a resolvable application that succeeds leaves, under
\* the application's bundle identifier, a group with Authorized = TRUE,
\* Whitelisted = FALSE, Hide = 0 and BundleID = BundleId = the identifier
\* (and changes no other group); a remove of the application that succeeds,
\* after an insert or at any other time, leaves no group under the
\* identifier and every other group as it was.
C14_InsertGroupThenRemove ==
    [][\A app \in LSApps :
           LET bid == AppInfoBid(app)
           IN  /\ \A failing \in Failures :
                      (LSInsert("e1", app, failing) /\ lslast'.outcome = "ok")
                          => /\ bid # NotFound
                             /\ bid \in DOMAIN clients'
                             /\ clients'[bid]["Authorized"] = "TRUE"
                             /\ clients'[bid]["Whitelisted"] = "FALSE"
                             /\ clients'[bid]["Hide"] = "0"
                             /\ clients'[bid]["BundleID"] = bid
                             /\ clients'[bid]["BundleId"] = bid
                             /\ OtherGroupsUnchanged(bid)
               /\ (LSRemove("e1", app, FALSE) /\ lslast'.outcome = "ok")
                      => /\ bid # NotFound
                         /\ bid \notin DOMAIN clients'
                         /\ OtherGroupsUnchanged(bid)]_vars

\* An insert has just written the group of Maps beside the group of Safari,
\* and the remove of Maps takes exactly that group away again.
C14_Witness ==
    /\ lslast.op = "insert"
    /\ lslast.outcome = "ok"
    /\ lslast.bid = "com.apple.Maps"
    /\ DOMAIN clients = {"com.apple.Maps", "com.apple.Safari"}
    /\ LET back == ls_remove(clients, "Maps.app", FALSE)
       IN  /\ back.outcome = "ok"
           /\ DOMAIN back.plist = {"com.apple.Safari"}
           /\ back.plist["com.apple.Safari"] = SafariGroup

\* The keys insert writes, as a set.
InsertKeySet == {InsertKeys[i] : i \in 1..Len(InsertKeys)}

\* C15: a disable of a resolvable application that succeeds leaves the
\* application's group present with Authorized = FALSE; when the group was
\* absent (or empty) it now holds every key insert writes, each but
\* Authorized with the value insert gives it; when it was present it holds
\* the keys it held, each but Authorized with the value it had; no other
\* group changes.
C15_DisableDeauthorizes ==
    [][\A app \in LSApps, failing \in Failures, fails \in BOOLEAN :
           (LSDisable("e1", app, failing, fails) /\ lslast'.outcome = "ok") =>
               LET bid == AppInfoBid(app)
                   before == plist_read(clients, bid)
               IN  /\ bid # NotFound
                   /\ bid \in DOMAIN clients'
                   /\ clients'[bid]["Authorized"] = "FALSE"
                   /\ before = NoKeys =>
                          /\ DOMAIN clients'[bid] = InsertKeySet
                          /\ \A k \in InsertKeySet \ {"Authorized"} :
                                 clients'[bid][k] = InsertValue(bid, k)
                   /\ before # NoKeys =>
                          /\ DOMAIN clients'[bid]
                                 = DOMAIN before \cup {"Authorized"}
                          /\ \A k \in DOMAIN before \ {"Authorized"} :
                                 clients'[bid][k] = before[k]
                   /\ OtherGroupsUnchanged(bid)]_vars

\* A disable has just succeeded on an application whose group an earlier
\* insert had left without its last key: the group is there, deauthorized
\* and still without that key, beside the untouched group of Safari.
C15_Witness ==
    /\ lslast.op = "disable"
    /\ lslast.outcome = "ok"
    /\ lslast.bid = "com.apple.Maps"
    /\ "com.apple.Maps" \in DOMAIN clients
    /\ clients["com.apple.Maps"]["Authorized"] = "FALSE"
    /\ DOMAIN clients["com.apple.Maps"] = InsertKeySet \ {"Whitelisted"}
    /\ "com.apple.Safari" \in DOMAIN clients
    /\ clients["com.apple.Safari"] = SafariGroup

\* C16 (as claimed): insert, remove or disable given a service argument and
\* a target that resolves does not just return: an unknown service is
\* rejected (ValueError), and a call that succeeds has addressed the service
\* name of the argument in the store of its scope class, where an insert
\* leaves the enabled row of the target and a remove leaves no row of it.
C16_ExplicitServiceIsUsed ==
    [][(pc = "open" /\ last'.op \in {"insert", "remove", "disable"}
            /\ last'.explicit /\ TargetResolved(last'))
          => LET key == lower(last'.service)
             IN  /\ last'.outcome # "return"
                 /\ key \notin DOMAIN available_services
                        => last'.outcome = "ValueError"
                 /\ last'.outcome = "ok" =>
                        /\ key \in DOMAIN available_services
                        /\ last'.name = available_services[key][1]
                        /\ last'.path = ScopePath(key)
                        /\ last'.op = "insert" =>
                               \E r \in PairRows(fs', last'.path, last'.name,
                                                 last'.client) :
                                   r[3] = 0 /\ r[4] = 1
                        /\ last'.op = "remove" =>
                               PairRows(fs', last'.path, last'.name,
                                        last'.client) = {}]_vars

(***************************************************************************)
(* Properties of opening and closing a session                             *)
(***************************************************************************)

\* C17 (as claimed): on a Darwin version below 12 neither editor can be
\* constructed: TCCEdit fails and leaves every file as it was, LSEdit fails
\* and leaves the daemon as it was.
C17_BelowTwelveUnsupported ==
    [][version < 12 =>
           /\ \A service \in SessionServices, userarg \in UserArgs,
                 template \in BOOLEAN, forceroot \in BOOLEAN,
                 admin \in BOOLEAN :
                  Open(service, userarg, template, forceroot, admin)
                      => pc' = "failed" /\ fs' = fs
           /\ \A unload_ok \in BOOLEAN, plist_ok \in BOOLEAN :
                  LSOpen("e1", unload_ok, plist_ok)
                      => ls'["e1"].pc = "failed" /\ daemon' = daemon]_vars

\* The recorded call handed the command to subprocess.
Ran(call, cmd) == \E i \in 1..Len(call.ran) : call.ran[i] = cmd

\* C18 (as amended): constructing LSEdit runs no ownership repair (so it
\* cannot fail on one): when it succeeds it has run launchctl unload and the
\* daemon is Stopped. The repair, chown -R on /var/db/locationd, is the
\* first thing closing the session runs; launchctl load is run only after
\* the repair has succeeded, and a failed repair ends the close with the
\* RuntimeError "Unable to repair permissions".
C18_RepairAtCloseBeforeLoad ==
    [][/\ \A unload_ok \in BOOLEAN, plist_ok \in BOOLEAN :
              LSOpen("e1", unload_ok, plist_ok) =>
                  /\ ~Ran(lslast', "chown")
                  /\ lslast'.outcome = "ok" =>
                         /\ lslast'.ran = <<"launchctl unload">>
                         /\ daemon' = "Stopped"
       /\ \A chown_ok \in BOOLEAN, load_ok \in BOOLEAN :
              LSClose("e1", chown_ok, load_ok) =>
                  /\ Len(lslast'.ran) >= 1
                  /\ lslast'.ran[1] = "chown"
                  /\ Ran(lslast', "launchctl load") =>
                         /\ chown_ok
                         /\ lslast'.ran = <<"chown", "launchctl load">>
                  /\ ~chown_ok => lslast'.outcome = "RuntimeError"]_vars

\* C18 (as claimed): constructing LSEdit repairs the ownership before it
\* stops the daemon: an open that runs launchctl unload has run chown first.
C18_RepairBeforeStop ==
    [][\A unload_ok \in BOOLEAN, plist_ok \in BOOLEAN :
           (LSOpen("e1", unload_ok, plist_ok)
                /\ Ran(lslast', "launchctl unload"))
               => lslast'.ran[1] = "chown"]_vars

\* A session has just been opened: the daemon is Stopped and launchctl
\* unload is all that was run.
C18_Witness ==
    /\ ls["e1"].pc = "open"
    /\ lslast.op = "open"
    /\ lslast.outcome = "ok"
    /\ lslast.ran = <<"launchctl unload">>
    /\ daemon = "Stopped"

(***************************************************************************)
(* Several LSEdit objects alive at once                                    *)
(***************************************************************************)

\* Two LSEdit objects, constructed, used and closed in any order: nothing in
\* LSEdit knows of the other object. The writes to the clients file succeed
\* here; what fails is left to the commands of open and close.
NextNested ==
    \/ \E s \in Sessions, unload_ok \in BOOLEAN, plist_ok \in BOOLEAN :
           LSOpen(s, unload_ok, plist_ok)
    \/ \E s \in Sessions, op \in {"insert", "remove", "disable"} :
           LSGlobal(s, op)
    \/ \E s \in Sessions, app \in LSApps : LSInsert(s, app, {})
    \/ \E s \in Sessions, app \in LSApps : LSRemove(s, app, FALSE)
    \/ \E s \in Sessions, app \in LSApps : LSDisable(s, app, {}, FALSE)
    \/ \E s \in Sessions, chown_ok \in BOOLEAN, load_ok \in BOOLEAN :
           LSClose(s, chown_ok, load_ok)

SpecNested == InitLS /\ [][NextNested]_vars

\* C19 (as claimed): every step that changes the clients file or a flag
\* file is taken while the daemon is Stopped, and constructing an LSEdit
\* while another is open is rejected and leaves the daemon as it is.
C19_EditsOnlyWhileStopped ==
    [][/\ (clients' # clients \/ byhost' # byhost) => daemon = "Stopped"
       /\ \A s \in Sessions, unload_ok \in BOOLEAN, plist_ok \in BOOLEAN :
              (LSOpen(s, unload_ok, plist_ok)
                   /\ \E t \in Sessions \ {s} : ls[t].pc = "open")
                  => ls'[s].pc = "failed" /\ daemon' = daemon]_vars

(***************************************************************************)
(* Properties of opening a relational session on the User Template         *)
(***************************************************************************)

\* C20 (as claimed): when root constructs TCCEdit with template set and the
\* template's TCC.db is absent, whatever user and forceroot are, a
\* construction that succeeds has run the Schema Builder on the template
\* path: the file is the Schema Builder's and holds the access table.
C20_TemplateStoreIsBuilt ==
    [][\A service \in SessionServices, userarg \in UserArgs,
          forceroot \in BOOLEAN, admin \in BOOLEAN :
           (euid = 0 /\ ~Exists(fs[TemplatePath("English")])
                /\ Open(service, userarg, TRUE, forceroot, admin)
                /\ pc' = "open")
               => /\ self'.local_path = TemplatePath("English")
                  /\ fs'[TemplatePath("English")].origin = "create"
                  /\ HasAccess(fs'[TemplatePath("English")])]_vars

(***************************************************************************)
(* Properties of the relational mutation engine: service selection, frame  *)
(***************************************************************************)

\* A call of insert, remove or disable with the target and no service
\* argument.
CallWithoutService(target) ==
    Insert(target, None) \/ Remove(target, None) \/ Disable(target, None)

\* C21 (as amended): in a session made without a service, insert, remove
\* and disable called without a service argument change no store; they
\* return without an error for a target that is None or that resolves (and
\* for every target in admin mode), and raise the resolver's error for a
\* target AppInfo cannot resolve, which is looked up before the service.
C21_NoServiceIsNoOp ==
    [][\A target \in Targets :
           (self.service = "" /\ CallWithoutService(target)) =>
               /\ fs' = fs
               /\ last'.outcome =
                      IF target # None /\ Client(self, target) = NotFound
                      THEN "AppNotFound"
                      ELSE "return"]_vars

\* C21 (as claimed): such a call returns without an error and changes no
\* store for every target, also one that cannot be resolved.
C21_NoServiceNeverRaises ==
    [][\A target \in Targets :
           (self.service = "" /\ CallWithoutService(target)) =>
               fs' = fs /\ last'.outcome = "return"]_vars

\* In a session without a service a disable of a resolved target has just
\* returned at the choice of the service.
C21_Witness ==
    /\ pc = "open"
    /\ self.service = ""
    /\ last.op = "disable"
    /\ ~last.explicit
    /\ last.outcome = "return"
    /\ last.client = "com.apple.Safari"

\* The step is a call of insert, remove or disable in the open session.
IsMutation == pc = "open" /\ last'.op \in {"insert", "remove", "disable"}

\* C22: insert, remove and disable leave every store but the one of the
\* service's scope class as it was: for a local-class service the global
\* store, for the root-class service the per-user and template stores; the
\* service is the one named in the call or else the session's.
C22_OnlyScopedStoreTouched ==
    [][IsMutation =>
           LET key == lower(Asked(last'))
           IN  key \in DOMAIN available_services =>
                   /\ available_services[key][2] = "local"
                          => fs'[root_path] = fs[root_path]
                   /\ available_services[key][2] = "root"
                          => \A p \in Paths \ {root_path} : fs'[p] = fs[p]
                   /\ \A p \in Paths \ {root_path, self.local_path} :
                          fs'[p] = fs[p]]_vars

\* An insert for accessibility has just added a row to the global store
\* beside a per-user store that holds rows.
C22_Witness ==
    /\ Succeeded("insert")
    /\ lower(self.service) = "accessibility"
    /\ last.path = root_path
    /\ last.rows = {}
    /\ fs[self.local_path].access # {}
    /\ self.local_path # root_path

(***************************************************************************)
(* Properties of the Location Services editor: failures and the switch     *)
(***************************************************************************)

\* C23 (as claimed): an insert of a resolvable application either succeeds
\* with all nine keys written, or raises with the application's group
\* exactly as it was before the call.
C23_InsertAllOrNothing ==
    [][\A app \in LSApps, failing \in Failures :
           (LSInsert("e1", app, failing) /\ AppInfoBid(app) # NotFound) =>
               LET bid == AppInfoBid(app)
                   before == plist_read(clients, bid)
                   after == plist_read(clients', bid)
               IN  \/ /\ lslast'.outcome = "ok"
                      /\ DOMAIN after = InsertKeySet
                      /\ \A k \in InsertKeySet :
                             after[k] = InsertValue(bid, k)
                   \/ /\ lslast'.outcome = "RuntimeError"
                      /\ after = before]_vars

\* The files of ByHost that follow the naming convention
\* com.apple.locationd.<id>.plist with an identifier free of dots.
Candidates == {id \in FlagIds : byhost[id].exists /\ ~HasDot(id)}

\* The candidates whose identifier is the hardware UUID or one of its
\* hyphen-separated segments, as it is or with the case folded.
MatchingCandidates == {id \in Candidates : MatchesUUID(HardwareUUID, id)}

\* C24 (as claimed): with no file named after the hardware UUID, a call of
\* the global switch that writes has written to the one candidate that
\* matches the UUID and has changed no other file; with no candidate, with
\* none that matches or with several that match it fails with the
\* store-not-found error (RuntimeError) and leaves every file as it was.
C24_UniqueMatchOrFail ==
    [][\A op \in {"insert", "remove", "disable"} :
           (LSGlobal("e1", op) /\ ~byhost[HardwareUUID].exists) =>
               /\ lslast'.outcome = "ok" =>
                      /\ MatchingCandidates = {lslast'.file}
                      /\ \A id \in FlagIds \ {lslast'.file} :
                             byhost'[id] = byhost[id]
               /\ Cardinality(MatchingCandidates) # 1 =>
                      /\ lslast'.outcome = "RuntimeError"
                      /\ byhost' = byhost]_vars

(***************************************************************************)
(* Properties of the rows the editor leaves                                *)
(***************************************************************************)

\* A database the editor made itself (by __create or by sqlite3.connect on
\* a missing file), which therefore started without rows.
StartedEmpty(f) == Exists(f) /\ f.origin \in {"create", "connect"}

\* C25: in a store that started empty, whatever insert, remove and disable
\* calls were made, every row of access has client_type 0, no two rows share
\* (service, client), and every row with allowed = 0 has prompt_count 1.
C25_RowsFromEmptyStore ==
    \A p \in Paths :
        StartedEmpty(fs[p]) =>
            \A r \in fs[p].access :
                /\ r[3] = 0
                /\ r[4] = 0 => r[5] = 1
                /\ \A q \in fs[p].access :
                       (q[1] = r[1] /\ q[2] = r[2]) => q = r

\* A disable has just succeeded and a store that started empty holds a row
\* with allowed = 0, which an earlier insert had put there.
C25_Witness ==
    /\ Succeeded("disable")
    /\ StartedEmpty(fs[last.path])
    /\ \E r \in fs[last.path].access : r[4] = 0
    /\ last.rows # {}

\* The services whose minimum version is above the given one.
TooNewNames(v) ==
    {available_services[k][1] : k \in {s \in DOMAIN available_services : VersionTooOld(v, s)}}

C27_FailedOpenRestoresDaemon ==
    [][(ls["e1"].pc = "start" /\ lslast'.op = "open" /\ lslast'.outcome # "ok")
           => daemon' = daemon]_vars

\* The step is a call of insert, remove or disable with an empty application
\* in the open session.
IsGlobalCall ==
    /\ ls["e1"].pc = "open"
    /\ lslast'.op \in {"insert", "remove", "disable"}
    /\ lslast'.bid = None

\* C28: in an open session, a call of insert with an empty application that
\* returns has set the global flag to 1, and a call of remove or disable
\* with an empty application that returns has set it to 0, overwriting
\* whatever value the flag held; the call changes no other preference file,
\* and no key group of /var/db/locationd/clients is created, changed or
\* deleted. A call that raises writes nothing.
C28_GlobalSwitchLastWriterWins ==
    [][IsGlobalCall =>
           LET key == IF version >= 14
                      THEN "LocationServicesEnabledIn7.0"
                      ELSE "LocationServicesEnabled"
               file == lslast'.file
           IN  /\ clients' = clients
               /\ IF lslast'.outcome = "ok"
                  THEN /\ byhost'[file].exists
                       /\ key \in DOMAIN byhost'[file].keys
                       /\ byhost'[file].keys[key]
                              = IF lslast'.op = "insert" THEN "1" ELSE "0"
                       /\ \A id \in FlagIds \ {file} :
                              byhost'[id] = byhost[id]
                  ELSE byhost' = byhost]_vars

\* The switch has just been turned off in the file named after the hardware
\* UUID while the clients file holds the key group of an application.
C28_Witness ==
    /\ WroteFlag
    /\ lslast.op = "remove"
    /\ lslast.file = HardwareUUID
    /\ byhost[HardwareUUID].keys = [k \in {FlagKey(version)} |-> "0"]
    /\ DOMAIN plist_read(clients, "com.apple.Maps") = InsertKeySet

====
